---- MODULE Spec2Model ----
(***************************************************************************)
(* Model of src/podcast_ai.py: the episode generation pipeline            *)
(* (generate_podcast and the functions it calls), the in-memory episode   *)
(* list podcast_episodes, the RSS document written from it, and the two   *)
(* threads that can run the pipeline: the event-loop thread serving the   *)
(* HTTP endpoints ("api") and the scheduler thread ("sched").              *)
(*                                                                         *)
(* Strings that the program only copies around are modelled by small      *)
(* records: a file name or URL is [name, ts], the script text is the      *)
(* sequence of its blocks.  Library calls whose code is not part of the   *)
(* repository (feedparser, elevenlabs, google.cloud.storage, feedgen) are *)
(* collaborators: each call either succeeds or raises, chosen by the      *)
(* environment.                                                            *)
(***************************************************************************)
EXTENDS Integers, Sequences, FiniteSets, TLC

VARIABLES
    ELEVENLABS_API_KEY,     \* TRUE iff the credential is configured (line 32)
    GCS_BUCKET_NAME,        \* TRUE iff the storage target is configured (line 34)
    ENABLE_LOCAL_SCHEDULER, \* TRUE iff the scheduler thread exists (line 37)
    podcast_episodes,       \* the list object bound to the global (line 54)
    now,                    \* the wall clock read by datetime.now()
    files,                  \* audio files present in PODCAST_DIR (by timestamp)
    feed_file,              \* content of PODCAST_DIR/RSS_FEED_PATH
    gcs_audio,              \* audio blobs present in the bucket (by timestamp)
    gcs_feed,               \* content of the blob RSS_FEED_PATH in the bucket
    synth_calls,            \* calls received by the synthesis provider
    upload_calls,           \* uploads attempted through the storage client
    runs,                   \* number of generate_podcast invocations so far
    pc,                     \* per thread: position in generate_podcast
    loc,                    \* per thread: the local variables of the invocation
    result,                 \* per thread: what the last invocation gave its caller
    response                \* last response of the /latest and /episodes endpoints

vars == <<ELEVENLABS_API_KEY, GCS_BUCKET_NAME, ENABLE_LOCAL_SCHEDULER,
          podcast_episodes, now, files, feed_file, gcs_audio, gcs_feed,
          synth_calls, upload_calls, runs, pc, loc, result, response>>

config == <<ELEVENLABS_API_KEY, GCS_BUCKET_NAME, ENABLE_LOCAL_SCHEDULER>>
world  == <<files, feed_file, gcs_audio, gcs_feed, synth_calls, upload_calls>>

----------------------------------------------------------------------------
(* Program constants *)

NumSources   == 3     \* news_sources has three feeds
PerSourceCap == 3     \* feed.entries[:3]
SampleSize   == 5     \* random.sample(news_list, 5)
MaxEpisodes  == 10    \* podcast_episodes[-10:]

(* Bounds of the model *)

MaxEntries    == 4    \* entries one feed serves (one more than the cap)
MaxRuns       == 2    \* invocations explored with every collaborator outcome
MaxClock      == 2    \* clock values explored with every collaborator outcome
MaxLedgerRuns == 12   \* invocations explored when every collaborator succeeds
QuietRuns     == 10   \* on-demand invocations made before the scheduled time
MaxServed     == 2    \* entries one feed serves when the script is composed

Threads == {"api", "sched"}

Min(a, b) == IF a < b THEN a ELSE b

----------------------------------------------------------------------------
(* Values *)

\* A news item: entry idx of source number source.  Title, link and summary
\* are those of the entry, so the pair identifies the item.
Item(s, j) == [source |-> s, idx |-> j]

\* line 96: the single backup topic, titled "No fresh news found."
FallbackItem == [source |-> 0, idx |-> 0]

NoItem == [source |-> -1, idx |-> -1]

\* File names and URLs.
Ref(n, t) == [name |-> n, ts |-> t]
SKIPPED   == Ref("audio_generation_skipped.mp3", 0)
FAILED    == Ref("audio_generation_failed.mp3", 0)
NO_EPISODE == Ref("no_episode.mp3", 0)
ERROR_MP3 == Ref("error.mp3", 0)
NoRef     == Ref("None", 0)
AudioPath(t) == Ref("podcast_episode.mp3", t)   \* PODCAST_DIR/podcast_episode_{t}.mp3
PublicUrl(t) == Ref("public_url", t)            \* blob.public_url of episodes/podcast_episode_{t}.mp3

\* Script text: a sequence of blocks.
Block(k, topic, guest, t) == [kind |-> k, topic |-> topic, guest |-> guest, ts |-> t]
NO_TOPICS_TEXT == <<Block("No topics available for this episode.", NoItem, 0, 0)>>
ERROR_TEXT     == <<Block("Error generating podcast.", NoItem, 0, 0)>>

\* A document (local file or blob): absent, or the entries it lists.
NoFile == [exists |-> FALSE, entries |-> <<>>]
Document(entries) == [exists |-> TRUE, entries |-> entries]

\* What a feed provider answers to feedparser.parse and to the reads of its
\* entries: it is down (parse raises), or it serves n entries of which
\* entry number err raises when read (err = 0: none does).
Down == [down |-> TRUE, n |-> 0, err |-> 0]
Served(n, e) == [down |-> FALSE, n |-> n, err |-> e]
FeedOutcomes ==
    {Down} \cup {Served(n, e) : n \in 0..MaxEntries, e \in 0..PerSourceCap}

NoAnswer == [down |-> FALSE, n |-> -1, err |-> 0]

\* An outcome in which the raising entry lies behind the cap is the outcome
\* without it: the entry is never read.
Readable(o) == o.err <= Min(o.n, PerSourceCap)

NoEpisode == [podcast_text |-> <<>>, audio_file |-> NoRef,
              audio_url |-> NoRef, timestamp |-> 0, created_at |-> 0]

\* The three keys of the dictionary generate_podcast returns, and how the
\* call ended for its caller.
Returned(text, audio, created) ==
    [outcome |-> "returned", podcast_text |-> text, audio_file |-> audio,
     created_at |-> created]
Raised == [outcome |-> "raised", podcast_text |-> <<>>, audio_file |-> NoRef,
           created_at |-> 0]
NoResult == [outcome |-> "none", podcast_text |-> <<>>, audio_file |-> NoRef,
             created_at |-> 0]

NoResponse == [endpoint |-> "none", status |-> 0, body |-> <<>>]

InitLoc ==
    [src |-> 0, answer |-> NoAnswer, news_list |-> <<>>, timestamp |-> 0,
     topics |-> <<>>, episode_content |-> <<>>, audio_filename |-> NoRef,
     audio_url |-> NoRef, final_url |-> NoRef, episode_data |-> NoEpisode,
     ref |-> "none", det |-> <<>>, tmp |-> <<>>, fg |-> <<>>]

----------------------------------------------------------------------------
(* fetch_tech_news, lines 66-96 *)

\* lines 78-85: the items appended while the entries of source s are read.
\* The loop reads at most PerSourceCap entries; if reading entry o.err
\* raises, the items before it have already been appended.
EntriesRead(o) ==
    IF o.down THEN 0
    ELSE IF o.err = 0 THEN Min(o.n, PerSourceCap)
    ELSE o.err - 1

SourceFailed(o) == o.down \/ o.err > 0

\* lines 76-88: one iteration of the loop over news_sources.  An exception
\* is logged and the loop continues with the next source.
fetch_source(news_list, s, o) ==
    news_list \o [j \in 1..EntriesRead(o) |-> Item(s, j)]

\* A loop that is left at the first failing source.
AfterSourceBreak(src, o) ==
    IF src = NumSources \/ SourceFailed(o) THEN "sample" ELSE "fetch"

\* lines 75 and 86-88: where the loop goes after source number src, whether
\* or not its provider failed: to the next source, or past the loop.
AfterSource(src, o) == IF src = NumSources THEN "sample" ELSE "fetch"

\* The sequences of k pairwise different elements of the set S.
RECURSIVE Arrangements(_, _)
Arrangements(S, k) ==
    IF k = 0 THEN {<<>>}
    ELSE UNION {{<<x>> \o t : t \in Arrangements(S \ {x}, k - 1)} : x \in S}

\* random.choices(news_list, k=5): positions drawn with replacement.
random_choices(news_list, k) ==
    {[i \in 1..k |-> news_list[a[i]]] : a \in [1..k -> 1..Len(news_list)]}

\* line 94: random.sample(news_list, 5) draws 5 positions without
\* replacement, in any order.
random_sample(news_list, k) ==
    {[i \in 1..k |-> news_list[a[i]]] : a \in Arrangements(1..Len(news_list), k)}

\* A fetch_tech_news that returns the aggregate as it is, empty or not.
fetch_return_no_fallback(news_list) ==
    IF Len(news_list) > SampleSize THEN random_sample(news_list, SampleSize)
    ELSE {news_list}

\* lines 93-96: the lists fetch_tech_news can return for an aggregate.
fetch_return(news_list) ==
    IF Len(news_list) > SampleSize THEN random_sample(news_list, SampleSize)
    ELSE IF news_list # <<>> THEN {news_list}
    ELSE {<<FallbackItem>>}

----------------------------------------------------------------------------
(* generate_conversation, lines 99-135 *)

\* What rendering one topic does: the template is rendered ("ok"), or it
\* raises and the fallback sentence of line 135 is rendered ("fallback"), or
\* it raises and line 135, which reads the same topic fields again, raises
\* as well ("raise"): that exception leaves generate_conversation.
RenderOutcomes == {"ok", "fallback", "raise"}

generate_conversation(topic, guest, o) ==
    IF o = "ok" THEN Block("exchange", topic, guest, 0)
    ELSE Block("fallback", topic, 0, 0)

\* A script whose loop puts each conversation in front of the earlier ones.
ScriptPrepends(topics, timestamp, rnd) ==
    <<Block("welcome", NoItem, 0, timestamp)>>
    \o [i \in 1..Len(topics) |->
            generate_conversation(topics[Len(topics) + 1 - i],
                                  rnd[Len(topics) + 1 - i].guest,
                                  rnd[Len(topics) + 1 - i].outcome)]
    \o <<Block("thanks", NoItem, 0, 0)>>

\* lines 231-238: the script for the topics, rendered with the guests and
\* outcomes rnd[i].
Script(topics, timestamp, rnd) ==
    <<Block("welcome", NoItem, 0, timestamp)>>
    \o [i \in 1..Len(topics) |->
            generate_conversation(topics[i], rnd[i].guest, rnd[i].outcome)]
    \o <<Block("thanks", NoItem, 0, 0)>>

ScriptRaises(topics, rnd) == \E i \in 1..Len(topics) : rnd[i].outcome = "raise"

----------------------------------------------------------------------------
(* text_to_speech, lines 138-158 *)

SynthOutcomes == {"ok", "generate_raises", "save_raises"}

\* line 139: with no key no call is made.
SynthCalled(key) == key

\* A text_to_speech without the check of line 139.
text_to_speech_unchecked(key, filename, o) ==
    IF o = "ok" THEN filename ELSE FAILED

text_to_speech(key, filename, o) ==
    IF ~key THEN SKIPPED
    ELSE IF o = "ok" THEN filename
    ELSE FAILED

\* line 153: save(audio, filename) has written the file.
SynthWrote(key, o) == key /\ o = "ok"

----------------------------------------------------------------------------
(* upload_to_gcs, lines 161-181 *)

\* An upload attempted whether or not a bucket is configured.
UploadAlways(bucket) == TRUE

\* line 162: with no bucket no request is made.
UploadCalled(bucket) == bucket

\* The upload succeeds if the service accepts it (ok) and the local file
\* exists: upload_from_filename raises for a missing file.
UploadDone(bucket, exists, ok) == bucket /\ exists /\ ok

\* An upload_to_gcs that returns the URL whether or not the upload worked.
upload_to_gcs_url_anyway(bucket, exists, ok, public_url) ==
    IF bucket THEN public_url ELSE NoRef

upload_to_gcs(bucket, exists, ok, public_url) ==
    IF UploadDone(bucket, exists, ok) THEN public_url ELSE NoRef

\* final_url = audio_url, without the fallback.
FinalUrlNoFallback(audio_url, audio_filename) == audio_url

\* line 249: final_url = audio_url if audio_url else audio_filename
FinalUrl(audio_url, audio_filename) ==
    IF audio_url # NoRef THEN audio_url ELSE audio_filename

----------------------------------------------------------------------------
(* generate_rss_feed, lines 184-217 *)

FeedEntry(episode) ==
    [id        |-> episode.audio_url,
     title     |-> <<"Episode", episode.timestamp>>,
     link      |-> episode.audio_url,
     enclosure |-> episode.audio_url,
     pubDate   |-> episode.created_at]

\* line 197: fg.add_entry() is called without an order argument, and
\* feedgen's add_entry(feedEntry=None, order='prepend') then inserts the new
\* entry at the front of the feed's entries.
add_entry(entries, fe) == <<fe>> \o entries

\* lines 196-203: the entries of the document after the loop over episodes.
RECURSIVE FeedEntries(_, _)
FeedEntries(entries, episodes) ==
    IF episodes = <<>> THEN entries
    ELSE FeedEntries(add_entry(entries, FeedEntry(Head(episodes))), Tail(episodes))

----------------------------------------------------------------------------
(* The state after the module has been loaded, lines 18-54 and 340-344 *)

Init ==
    /\ ELEVENLABS_API_KEY \in BOOLEAN
    /\ GCS_BUCKET_NAME \in BOOLEAN
    /\ ENABLE_LOCAL_SCHEDULER \in BOOLEAN
    /\ podcast_episodes = <<>>
    /\ now = 0
    /\ files = {}
    /\ feed_file = NoFile
    /\ gcs_audio = {}
    /\ gcs_feed = NoFile
    /\ synth_calls = 0
    /\ upload_calls = 0
    /\ runs = 0
    /\ pc = [p \in Threads |-> "idle"]
    /\ loc = [p \in Threads |-> InitLoc]
    /\ result = [p \in Threads |-> NoResult]
    /\ response = NoResponse

----------------------------------------------------------------------------
(* generate_podcast, lines 220-280, one action per step *)

Goto(p, label) == pc' = [pc EXCEPT ![p] = label]
Locals(p, l)   == loc' = [loc EXCEPT ![p] = l]

\* The invocation ends: its caller receives res and the locals are gone.
Finish(p, res) ==
    /\ pc' = [pc EXCEPT ![p] = "idle"]
    /\ loc' = [loc EXCEPT ![p] = InitLoc]
    /\ result' = [result EXCEPT ![p] = res]

\* A handler that logs and raises again.
HandlerReraises(created) == Raised

\* lines 276-280: the handler of the try block around the whole body.
Handler(created) == Returned(ERROR_TEXT, ERROR_MP3, created)

\* The list object a thread's reference designates: the object bound to the
\* global, or an object the global was rebound away from.
Target(p) == IF loc[p].ref = "global" THEN podcast_episodes ELSE loc[p].det

\* lines 283-290 (POST /generate, on the event-loop thread) and lines 334-338
\* (the scheduled job, on the scheduler thread): generate_podcast is called.
Start(p) ==
    /\ pc[p] = "idle"
    /\ p = "sched" => ENABLE_LOCAL_SCHEDULER
    /\ runs' = runs + 1
    /\ Goto(p, "fetch")
    /\ Locals(p, [InitLoc EXCEPT !.src = 1])
    /\ result' = [result EXCEPT ![p] = NoResult]
    /\ UNCHANGED <<config, world, podcast_episodes, now, response>>

\* lines 75-88: the loop body for source number src; the provider answers o
\* (answer keeps what the provider of the source just processed answered).
FetchSource(p, o) ==
    /\ pc[p] = "fetch"
    /\ Goto(p, AfterSource(loc[p].src, o))
    /\ Locals(p, [loc[p] EXCEPT
            !.answer = o,
            !.news_list = fetch_source(@, loc[p].src, o),
            !.src = @ + 1])
    /\ UNCHANGED <<config, world, podcast_episodes, now, runs, result, response>>

\* lines 93-96 and 223-229: fetch_tech_news returns topics, and
\* generate_podcast returns at once if the list is empty.
FetchReturn(p) ==
    /\ pc[p] = "sample"
    /\ \E topics \in fetch_return(loc[p].news_list) :
        IF topics = <<>>
        THEN Finish(p, Returned(NO_TOPICS_TEXT, NO_EPISODE, now))
        ELSE /\ Goto(p, "compose")
             /\ Locals(p, [loc[p] EXCEPT
                     !.answer = NoAnswer, !.news_list = <<>>, !.src = 0,
                     !.topics = topics])
             /\ UNCHANGED result
    /\ UNCHANGED <<config, world, podcast_episodes, now, runs, response>>

\* A handler that also puts the error record into the list.
ComposeRecordsError(p, d, rnd) ==
    /\ pc[p] = "compose"
    /\ now' = now + d
    /\ IF ScriptRaises(loc[p].topics, rnd)
       THEN /\ Finish(p, Handler(now'))
            /\ podcast_episodes' = Append(podcast_episodes,
                    [podcast_text |-> ERROR_TEXT, audio_file |-> ERROR_MP3,
                     audio_url |-> ERROR_MP3, timestamp |-> now',
                     created_at |-> now'])
       ELSE /\ Goto(p, "tts")
            /\ Locals(p, [loc[p] EXCEPT
                    !.timestamp = now',
                    !.episode_content = Script(loc[p].topics, now', rnd)])
            /\ UNCHANGED <<result, podcast_episodes>>
    /\ UNCHANGED <<config, world, runs, response>>

\* lines 231-238: the timestamp is read (the clock has advanced by d) and the
\* script is composed; rnd gives, per topic, the guest drawn and what
\* rendering does.  An exception leaving generate_conversation reaches the
\* handler of line 276.
Compose(p, d, rnd) ==
    /\ pc[p] = "compose"
    /\ now' = now + d
    /\ IF ScriptRaises(loc[p].topics, rnd)
       THEN Finish(p, Handler(now'))
       ELSE /\ Goto(p, "tts")
            /\ Locals(p, [loc[p] EXCEPT
                    !.timestamp = now',
                    !.episode_content = Script(loc[p].topics, now', rnd)])
            /\ UNCHANGED result
    /\ UNCHANGED <<config, world, podcast_episodes, runs, response>>

\* line 241: text_to_speech(episode_content, <path of this timestamp>).
TextToSpeech(p, o) ==
    /\ pc[p] = "tts"
    /\ Goto(p, "upload")
    /\ Locals(p, [loc[p] EXCEPT !.audio_filename =
            text_to_speech(ELEVENLABS_API_KEY, AudioPath(loc[p].timestamp), o)])
    /\ synth_calls' = IF SynthCalled(ELEVENLABS_API_KEY) THEN synth_calls + 1
                      ELSE synth_calls
    /\ files' = IF SynthWrote(ELEVENLABS_API_KEY, o)
                THEN files \cup {loc[p].timestamp} ELSE files
    /\ UNCHANGED <<config, feed_file, gcs_audio, gcs_feed, upload_calls,
                   podcast_episodes, now, runs, result, response>>

\* A local file of that name exists: only the paths text_to_speech wrote do.
Exists(filename) == filename.name = "podcast_episode.mp3" /\ filename.ts \in files

\* lines 244-258: the audio is uploaded if a bucket is configured, the
\* reference is chosen and episode_data is built (its created_at is read
\* after the clock has advanced by d).
UploadAudio(p, ok, d) ==
    LET l == loc[p]
        audio_url == upload_to_gcs(GCS_BUCKET_NAME, Exists(l.audio_filename), ok,
                                   PublicUrl(l.timestamp))
        final_url == FinalUrl(audio_url, l.audio_filename)
    IN  /\ pc[p] = "upload"
        /\ now' = now + d
        /\ Goto(p, "append_load")
        /\ upload_calls' = IF UploadCalled(GCS_BUCKET_NAME) THEN upload_calls + 1
                           ELSE upload_calls
        /\ gcs_audio' = IF UploadDone(GCS_BUCKET_NAME, Exists(l.audio_filename), ok)
                        THEN gcs_audio \cup {l.timestamp} ELSE gcs_audio
        /\ Locals(p, [l EXCEPT
                !.audio_url = audio_url,
                !.final_url = final_url,
                !.episode_data =
                    [podcast_text |-> l.episode_content,
                     audio_file |-> l.audio_filename, audio_url |-> final_url,
                     timestamp |-> l.timestamp, created_at |-> now']])
        /\ UNCHANGED <<config, files, feed_file, gcs_feed, synth_calls,
                       podcast_episodes, runs, result, response>>

\* line 261, first half: podcast_episodes is loaded for the append.
AppendLoad(p) ==
    /\ pc[p] = "append_load"
    /\ Goto(p, "append")
    /\ Locals(p, [loc[p] EXCEPT !.ref = "global", !.det = <<>>])
    /\ UNCHANGED <<config, world, podcast_episodes, now, runs, result, response>>

\* line 261, second half: append on the loaded list object.
AppendEpisode(p) ==
    /\ pc[p] = "append"
    /\ Goto(p, "len")
    /\ IF loc[p].ref = "global"
       THEN /\ podcast_episodes' = Append(podcast_episodes, loc[p].episode_data)
            /\ Locals(p, [loc[p] EXCEPT !.ref = "none"])
       ELSE /\ UNCHANGED podcast_episodes
            /\ Locals(p, [loc[p] EXCEPT !.ref = "none", !.det = <<>>])
    /\ UNCHANGED <<config, world, now, runs, result, response>>

\* line 264: if len(podcast_episodes) > 10
CheckLen(p) ==
    /\ pc[p] = "len"
    /\ Goto(p, IF Len(podcast_episodes) > MaxEpisodes THEN "slice" ELSE "feed_load")
    /\ UNCHANGED <<config, world, podcast_episodes, now, runs, loc, result, response>>

\* podcast_episodes[:10]: the first 10 elements instead of the last.
FirstEpisodes(episodes) ==
    IF Len(episodes) > MaxEpisodes THEN SubSeq(episodes, 1, MaxEpisodes)
    ELSE episodes

\* podcast_episodes[-10:]: a new list of the last 10 elements.
LastEpisodes(episodes) ==
    IF Len(episodes) > MaxEpisodes
    THEN SubSeq(episodes, Len(episodes) - MaxEpisodes + 1, Len(episodes))
    ELSE episodes

\* line 265, right-hand side: the slice of the list now bound to the global.
Slice(p) ==
    /\ pc[p] = "slice"
    /\ Goto(p, "store")
    /\ Locals(p, [loc[p] EXCEPT !.tmp = LastEpisodes(podcast_episodes)])
    /\ UNCHANGED <<config, world, podcast_episodes, now, runs, result, response>>

\* line 265, assignment: the global is bound to the new list.  A thread that
\* had loaded the old list keeps designating the old list.
StoreGlobal(p) ==
    /\ pc[p] = "store"
    /\ Goto(p, "feed_load")
    /\ podcast_episodes' = loc[p].tmp
    /\ loc' = [q \in Threads |->
                IF q = p THEN [loc[q] EXCEPT !.tmp = <<>>]
                ELSE IF loc[q].ref = "global"
                     THEN [loc[q] EXCEPT !.ref = "old", !.det = podcast_episodes]
                     ELSE loc[q]]
    /\ UNCHANGED <<config, world, now, runs, result, response>>

\* line 268: podcast_episodes is loaded as the argument of generate_rss_feed.
FeedLoad(p) ==
    /\ pc[p] = "feed_load"
    /\ Goto(p, "feed_build")
    /\ Locals(p, [loc[p] EXCEPT !.ref = "global", !.det = <<>>])
    /\ UNCHANGED <<config, world, podcast_episodes, now, runs, result, response>>

\* A generate_rss_feed without its try block: what feedgen raises reaches the
\* handler of generate_podcast.
FeedBuildRaises(p, ok) ==
    /\ pc[p] = "feed_build"
    /\ IF ok
       THEN /\ Goto(p, "feed_write")
            /\ Locals(p, [loc[p] EXCEPT
                    !.ref = "none", !.det = <<>>,
                    !.fg = FeedEntries(<<>>, Target(p))])
            /\ UNCHANGED result
       ELSE Finish(p, Handler(now))
    /\ UNCHANGED <<config, world, podcast_episodes, now, runs, response>>

\* lines 186-203: the feed object is built from the list passed in.  feedgen
\* may raise (ok = FALSE); line 216 absorbs it and generate_rss_feed returns.
FeedBuild(p, ok) ==
    /\ pc[p] = "feed_build"
    /\ Goto(p, IF ok THEN "feed_write" ELSE "return")
    /\ Locals(p, [loc[p] EXCEPT
            !.ref = "none", !.det = <<>>,
            !.fg = IF ok THEN FeedEntries(<<>>, Target(p)) ELSE <<>>])
    /\ UNCHANGED <<config, world, podcast_episodes, now, runs, result, response>>

\* line 205: fg.rss_file writes the document; a failure is absorbed.
FeedWrite(p, ok) ==
    /\ pc[p] = "feed_write"
    /\ Goto(p, IF ok THEN "feed_upload" ELSE "return")
    /\ feed_file' = IF ok THEN Document(loc[p].fg) ELSE feed_file
    /\ Locals(p, [loc[p] EXCEPT !.fg = <<>>])
    /\ UNCHANGED <<config, files, gcs_audio, gcs_feed, synth_calls, upload_calls,
                   podcast_episodes, now, runs, result, response>>

\* lines 208-213: the file at the feed path, as it is now, is uploaded if a
\* bucket is configured.
FeedUpload(p, ok) ==
    /\ pc[p] = "feed_upload"
    /\ Goto(p, "return")
    /\ upload_calls' = IF UploadCalled(GCS_BUCKET_NAME) THEN upload_calls + 1
                       ELSE upload_calls
    /\ gcs_feed' = IF UploadDone(GCS_BUCKET_NAME, feed_file.exists, ok)
                   THEN feed_file ELSE gcs_feed
    /\ UNCHANGED <<config, files, feed_file, gcs_audio, synth_calls,
                   podcast_episodes, now, runs, loc, result, response>>

\* lines 272-274: the dictionary returned; created_at is read after the
\* clock has advanced by d.
Return(p, d) ==
    /\ pc[p] = "return"
    /\ now' = now + d
    /\ Finish(p, Returned(loc[p].episode_content, loc[p].final_url, now'))
    /\ UNCHANGED <<config, world, podcast_episodes, runs, response>>

\* lines 77 and 148: feedparser.parse(source) and generate(...) are called
\* without a timeout, so the call returns (or raises) only when the provider
\* answers or closes the connection.  A provider that accepts the connection
\* and never answers leaves the thread inside the call for good.
Hang(p) ==
    /\ pc[p] \in {"fetch", "tts"}
    /\ Goto(p, "blocked")
    /\ UNCHANGED <<config, world, podcast_episodes, now, runs, loc, result, response>>

----------------------------------------------------------------------------
(* The query endpoints, served by the event-loop thread between requests *)

\* lines 296-313: GET /latest.  The HTTPException of line 303 is raised
\* inside the try block, and line 311 catches every Exception.
get_latest_episode(episodes) ==
    IF episodes = <<>>
    THEN [endpoint |-> "latest", status |-> 500, body |-> <<>>]
    ELSE [endpoint |-> "latest", status |-> 200,
          body |-> <<Returned(episodes[Len(episodes)].podcast_text,
                              episodes[Len(episodes)].audio_url,
                              episodes[Len(episodes)].created_at)>>]

\* lines 316-325: GET /episodes.
list_episodes(episodes) ==
    [endpoint |-> "episodes", status |-> 200, body |-> episodes]

GetLatest ==
    /\ pc["api"] = "idle"
    /\ response' = get_latest_episode(podcast_episodes)
    /\ UNCHANGED <<config, world, podcast_episodes, now, runs, pc, loc, result>>

ListEpisodes ==
    /\ pc["api"] = "idle"
    /\ response' = list_episodes(podcast_episodes)
    /\ UNCHANGED <<config, world, podcast_episodes, now, runs, pc, loc, result>>

----------------------------------------------------------------------------
(* Specifications *)

Advance == IF now < MaxClock THEN 0..1 ELSE {0}

\* The renderings of a topic list in which every draw of random.choice gives
\* the first guest.
Renderings(topics, outcomes) ==
    [1..Len(topics) -> [guest : {1}, outcome : outcomes]]

\* Spec: the default configuration of line 37 (no scheduler thread), every
\* outcome of the synthesis, storage and feed-writing collaborators and of
\* rendering, for at most MaxRuns invocations and MaxClock clock ticks.  The
\* feed providers fail or serve nothing, so the topic is the fallback topic
\* (SpecFetch explores what they can serve).  Fewer than MaxEpisodes
\* invocations never reach line 265 (SpecLedger does).
Init0 ==
    /\ Init
    /\ ENABLE_LOCAL_SCHEDULER = FALSE

Next ==
    \/ \E p \in Threads : runs < MaxRuns /\ Start(p)
    \/ \E p \in Threads, o \in {Down, Served(0, 0)} : FetchSource(p, o)
    \/ \E p \in Threads : FetchReturn(p)
    \/ \E p \in Threads, d \in Advance :
        \E r \in Renderings(loc[p].topics, RenderOutcomes) : Compose(p, d, r)
    \/ \E p \in Threads, o \in SynthOutcomes : TextToSpeech(p, o)
    \/ \E p \in Threads, ok \in BOOLEAN, d \in Advance : UploadAudio(p, ok, d)
    \/ \E p \in Threads : AppendLoad(p)
    \/ \E p \in Threads : AppendEpisode(p)
    \/ \E p \in Threads : CheckLen(p)
    \/ \E p \in Threads : FeedLoad(p)
    \/ \E p \in Threads, ok \in BOOLEAN : FeedBuild(p, ok)
    \/ \E p \in Threads, ok \in BOOLEAN : FeedWrite(p, ok)
    \/ \E p \in Threads, ok \in BOOLEAN : FeedUpload(p, ok)
    \/ \E p \in Threads, d \in Advance : Return(p, d)

Spec == Init0 /\ [][Next]_vars

\* SpecLedger: the scheduler thread runs beside the event-loop thread, every
\* collaborator succeeds, each invocation reads a later timestamp, and up to
\* MaxLedgerRuns invocations are made, so the list outgrows MaxEpisodes.  The
\* scheduled time comes after QuietRuns on-demand invocations; from then on
\* the two threads interleave freely.
InitLedger ==
    /\ Init
    /\ ENABLE_LOCAL_SCHEDULER = TRUE
    /\ ELEVENLABS_API_KEY = TRUE

NextLedger ==
    \/ \E p \in Threads :
        /\ runs < MaxLedgerRuns
        /\ p = "sched" => runs >= QuietRuns
        /\ Start(p)
    \/ \E p \in Threads : FetchSource(p, Down)
    \/ \E p \in Threads : FetchReturn(p)
    \/ \E p \in Threads : \E r \in Renderings(loc[p].topics, {"ok"}) : Compose(p, 1, r)
    \/ \E p \in Threads : TextToSpeech(p, "ok")
    \/ \E p \in Threads : UploadAudio(p, TRUE, 0)
    \/ \E p \in Threads : AppendLoad(p)
    \/ \E p \in Threads : AppendEpisode(p)
    \/ \E p \in Threads : CheckLen(p)
    \/ \E p \in Threads : Slice(p)
    \/ \E p \in Threads : StoreGlobal(p)
    \/ \E p \in Threads : FeedLoad(p)
    \/ \E p \in Threads : FeedBuild(p, TRUE)
    \/ \E p \in Threads : FeedWrite(p, TRUE)
    \/ \E p \in Threads : FeedUpload(p, TRUE)
    \/ \E p \in Threads : Return(p, 0)

SpecLedger == InitLedger /\ [][NextLedger]_vars

\* SpecRace: as SpecLedger from the start (no quiet period), for at most
\* MaxRuns invocations; fewer than MaxEpisodes never reach line 265.
NextRace ==
    \/ \E p \in Threads : runs < MaxRuns /\ Start(p)
    \/ \E p \in Threads : FetchSource(p, Down)
    \/ \E p \in Threads : FetchReturn(p)
    \/ \E p \in Threads : \E r \in Renderings(loc[p].topics, {"ok"}) : Compose(p, 1, r)
    \/ \E p \in Threads : TextToSpeech(p, "ok")
    \/ \E p \in Threads : UploadAudio(p, TRUE, 0)
    \/ \E p \in Threads : AppendLoad(p)
    \/ \E p \in Threads : AppendEpisode(p)
    \/ \E p \in Threads : CheckLen(p)
    \/ \E p \in Threads : FeedLoad(p)
    \/ \E p \in Threads : FeedBuild(p, TRUE)
    \/ \E p \in Threads : FeedWrite(p, TRUE)
    \/ \E p \in Threads : FeedUpload(p, TRUE)
    \/ \E p \in Threads : Return(p, 0)

SpecRace == InitLedger /\ [][NextRace]_vars

\* SpecQuery: the scheduler thread makes up to MaxLedgerRuns invocations one
\* after the other, every collaborator succeeding, while the event-loop
\* thread serves GET /latest and GET /episodes at any moment.
NextQuery ==
    \/ runs < MaxLedgerRuns /\ Start("sched")
    \/ FetchSource("sched", Down)
    \/ FetchReturn("sched")
    \/ \E r \in Renderings(loc["sched"].topics, {"ok"}) : Compose("sched", 1, r)
    \/ TextToSpeech("sched", "ok")
    \/ UploadAudio("sched", TRUE, 0)
    \/ AppendLoad("sched")
    \/ AppendEpisode("sched")
    \/ CheckLen("sched")
    \/ Slice("sched")
    \/ StoreGlobal("sched")
    \/ FeedLoad("sched")
    \/ FeedBuild("sched", TRUE)
    \/ FeedWrite("sched", TRUE)
    \/ FeedUpload("sched", TRUE)
    \/ Return("sched", 0)
    \/ GetLatest
    \/ ListEpisodes

SpecQuery == InitLedger /\ [][NextQuery]_vars

\* SpecFetch: one invocation up to the return of fetch_tech_news, with every
\* answer of the three feed providers and every draw of random.sample.
NextFetch ==
    \/ runs < 1 /\ Start("api")
    \/ \E o \in {f \in FeedOutcomes : Readable(f)} : FetchSource("api", o)
    \/ FetchReturn("api")

SpecFetch == Init0 /\ [][NextFetch]_vars

\* SpecCompose: one invocation up to the end of the composition of the
\* script (lines 223-238), in the configuration without key and bucket (none
\* of these lines reads them): the providers serve up to MaxServed entries
\* each, so that topic lists of up to SampleSize different topics are
\* composed, with every outcome of rendering for every topic.
InitCompose ==
    /\ Init0
    /\ ELEVENLABS_API_KEY = FALSE
    /\ GCS_BUCKET_NAME = FALSE

NextCompose ==
    \/ runs < 1 /\ Start("api")
    \/ \E n \in 0..MaxServed : FetchSource("api", Served(n, 0))
    \/ FetchReturn("api")
    \/ \E r \in Renderings(loc["api"].topics, RenderOutcomes) : Compose("api", 1, r)

SpecCompose == InitCompose /\ [][NextCompose]_vars

\* SpecLive: Spec with providers that may also never answer, and with the
\* scheduling the interpreter gives a thread: a thread that can take its next
\* step takes it eventually.
NextLive ==
    \/ Next
    \/ \E p \in Threads : Hang(p)

SpecLive == Init0 /\ [][NextLive]_vars /\ WF_vars(Next)

----------------------------------------------------------------------------
(* Properties *)

\* C1: whatever the collaborators do, generate_podcast does not raise to its
\* caller: every invocation that has ended has returned a dictionary whose
\* podcast_text, audio_file and created_at are all present (not None).
C1_RunReturnsRecord ==
    \A p \in Threads :
        result[p] # NoResult =>
            /\ result[p].outcome = "returned"
            /\ result[p].podcast_text # <<>>
            /\ result[p].audio_file # NoRef
            /\ result[p].created_at \in 0..now

\* An invocation in which rendering raised out of generate_conversation has
\* ended, with the record of the handler.
C1_Witness ==
    /\ result["api"].outcome = "returned"
    /\ result["api"].audio_file = ERROR_MP3
    /\ pc["api"] = "idle"

Timestamps(episodes) == [i \in 1..Len(episodes) |-> episodes[i].timestamp]

IsPrefix(a, b) == Len(a) <= Len(b) /\ SubSeq(b, 1, Len(a)) = a

\* C2: after N invocations made one after the other, all successful, the list
\* holds the records of the last min(N, 10) of them, oldest first (under
\* SpecQuery invocation number k reads timestamp k): for N = 11, ten records,
\* the first of them that of invocation 2.
C2_LastTenInOrder ==
    pc["sched"] = "idle" =>
        LET k == Min(runs, MaxEpisodes)
        IN  Timestamps(podcast_episodes) = [i \in 1..k |-> runs - k + i]

\* Eleven invocations have ended; invocation 1 has been evicted.
C2_Witness ==
    /\ pc["sched"] = "idle"
    /\ runs = MaxEpisodes + 1
    /\ Len(podcast_episodes) = MaxEpisodes
    /\ podcast_episodes[1].timestamp = 2

\* C3: every list a query observes has at most 10 records, also when the
\* query is served while an invocation on the scheduler thread is between the
\* append of line 261 and the eviction of line 265.
C3_ObservedAtMostTen ==
    response.endpoint = "episodes" => Len(response.body) <= MaxEpisodes

\* C4: once every concurrent invocation has ended (no feed write having
\* failed), the document written last lists exactly the records that are in
\* the list.
C4_FeedMatchesLedger ==
    (\A p \in Threads : pc[p] = "idle") /\ runs > 0 =>
        /\ feed_file.exists
        /\ Len(feed_file.entries) = Len(podcast_episodes)
        /\ {feed_file.entries[i] : i \in 1..Len(feed_file.entries)}
             = {FeedEntry(podcast_episodes[i]) : i \in 1..Len(podcast_episodes)}

Distinct(seq) == \A i, j \in 1..Len(seq) : i # j => seq[i] # seq[j]

DrawnFrom(seq, list) == \A i \in 1..Len(seq) : \E k \in 1..Len(list) : seq[i] = list[k]

\* C5: when fetch_tech_news returns, the list it returns is: 5 pairwise
\* different items, all of the aggregate, if the aggregate holds more than 5;
\* the aggregate itself, in its order, if it holds 1 to 5; the single
\* fallback item if it is empty.
C5_FetchReturn ==
    [][\A p \in Threads :
        pc[p] = "sample" /\ pc'[p] # "sample" =>
            LET news_list == loc[p].news_list
                topics    == loc'[p].topics
            IN  /\ pc'[p] = "compose"
                /\ Len(news_list) > SampleSize =>
                        /\ Len(topics) = SampleSize
                        /\ Distinct(topics)
                        /\ DrawnFrom(topics, news_list)
                /\ Len(news_list) \in 1..SampleSize => topics = news_list
                /\ Len(news_list) = 0 => topics = <<FallbackItem>>]_vars

\* Five items have been returned that are not in aggregation order: they were
\* drawn from a larger aggregate.
C5_Witness ==
    /\ pc["api"] = "compose"
    /\ Len(loc["api"].topics) = SampleSize
    /\ loc["api"].topics[1].source = NumSources
    /\ loc["api"].topics[SampleSize].source = 1

\* C6: fetch_tech_news does not raise, and a failing provider does not end
\* the loop: after each source, failed or not, the loop goes on to the next
\* one until all NumSources have been queried; the items aggregated so far
\* are kept; and a provider that did not fail contributes its first
\* PerSourceCap entries (all of them if it serves fewer).
C6_FetchIsolatesFailures ==
    [][\A p \in Threads :
        /\ pc[p] = "fetch" /\ loc'[p] # loc[p] =>
            LET src == loc[p].src
                o   == loc'[p].answer
            IN  /\ result'[p] = NoResult
                /\ loc'[p].src = src + 1
                /\ pc'[p] = IF src < NumSources THEN "fetch" ELSE "sample"
                /\ IsPrefix(loc[p].news_list, loc'[p].news_list)
                /\ ~SourceFailed(o) =>
                        loc'[p].news_list = loc[p].news_list \o
                            [j \in 1..Min(o.n, PerSourceCap) |-> Item(src, j)]
        /\ pc[p] = "sample" /\ pc'[p] # "sample" =>
                pc'[p] = "compose" /\ result'[p] = NoResult]_vars

\* The second provider was down; the three items of the first are still
\* there and the third provider is about to be queried.
C6_Witness ==
    /\ pc["api"] = "fetch"
    /\ loc["api"].src = NumSources
    /\ loc["api"].answer = Down
    /\ loc["api"].news_list = <<Item(1, 1), Item(1, 2), Item(1, 3)>>

\* C7: text_to_speech does not raise.  Without a key it returns
\* "audio_generation_skipped.mp3" and the synthesis provider is not called.
\* With a key it returns "audio_generation_failed.mp3" or the destination
\* path; the path only if the file is there, and the failure name whenever
\* the file is not there afterwards.
C7_TextToSpeech ==
    [][\A p \in Threads :
        pc[p] = "tts" /\ pc'[p] # "tts" =>
            LET dest  == AudioPath(loc[p].timestamp)
                audio == loc'[p].audio_filename
            IN  /\ pc'[p] = "upload"
                /\ ~ELEVENLABS_API_KEY =>
                        /\ audio = SKIPPED
                        /\ synth_calls' = synth_calls
                        /\ files' = files
                /\ ELEVENLABS_API_KEY =>
                        /\ synth_calls' = synth_calls + 1
                        /\ audio \in {FAILED, dest}
                        /\ audio = dest => loc[p].timestamp \in files'
                        /\ loc[p].timestamp \notin files' => audio = FAILED]_vars

\* No key is configured and text_to_speech has returned the skip name.
C7_Witness ==
    /\ ~ELEVENLABS_API_KEY
    /\ pc["api"] = "upload"
    /\ loc["api"].audio_filename = SKIPPED
    /\ synth_calls = 0

\* C8: an invocation in which synthesis failed ends only by returning, and
\* then returns "audio_generation_failed.mp3" as audio_file and the composed,
\* non-empty script as podcast_text, its record being in the list; with or
\* without a bucket.
C8_SynthesisFailureKeepsEpisode ==
    [][\A p \in Threads :
        loc[p].audio_filename = FAILED /\ pc[p] # "idle" /\ pc'[p] = "idle" =>
            /\ pc[p] = "return"
            /\ result'[p].outcome = "returned"
            /\ result'[p].audio_file = FAILED
            /\ result'[p].podcast_text = loc[p].episode_content
            /\ loc[p].episode_content # <<>>
            /\ \E i \in 1..Len(podcast_episodes) :
                    /\ podcast_episodes[i] = loc[p].episode_data
                    /\ podcast_episodes[i].audio_url = FAILED]_vars

\* A bucket is configured, synthesis failed, and the invocation has returned
\* the failure name.
C8_Witness ==
    /\ GCS_BUCKET_NAME
    /\ pc["api"] = "idle"
    /\ result["api"].audio_file = FAILED
    /\ Len(podcast_episodes) >= 1
    /\ podcast_episodes[Len(podcast_episodes)].audio_url = FAILED

\* C9: upload_to_gcs does not raise.  Without a bucket it returns None and
\* no upload is attempted; with a bucket it returns None when the blob was
\* not stored.  Whenever it returns None for the audio, episode_data's
\* audio_url is the local name audio_file.
C9_UploadFallsBackToLocal ==
    [][\A p \in Threads :
        pc[p] = "upload" /\ pc'[p] # "upload" =>
            LET l == loc'[p]
            IN  /\ pc'[p] = "append_load"
                /\ ~GCS_BUCKET_NAME =>
                        /\ l.audio_url = NoRef
                        /\ upload_calls' = upload_calls
                        /\ gcs_audio' = gcs_audio
                /\ l.timestamp \notin gcs_audio' => l.audio_url = NoRef
                /\ l.audio_url = NoRef =>
                        /\ l.episode_data.audio_url = l.episode_data.audio_file
                        /\ l.episode_data.audio_file = loc[p].audio_filename]_vars

\* No bucket is configured, the audio was written, and the record refers to
\* the local path.
C9_Witness ==
    /\ ~GCS_BUCKET_NAME
    /\ pc["api"] = "append_load"
    /\ loc["api"].audio_url = NoRef
    /\ loc["api"].episode_data.audio_url = AudioPath(loc["api"].timestamp)
    /\ upload_calls = 0

\* C10: the document generate_rss_feed builds from the records R1..Rk has k
\* entries, entry i titled "Episode {Ri's timestamp}" and carrying Ri's
\* audio_url as id and enclosure.
C10_FeedInInputOrder ==
    [][\A p \in Threads :
        pc[p] = "feed_build" /\ pc'[p] = "feed_write" =>
            LET R  == Target(p)
                fg == loc'[p].fg
            IN  /\ Len(fg) = Len(R)
                /\ \A i \in 1..Len(R) :
                        /\ fg[i].title = <<"Episode", R[i].timestamp>>
                        /\ fg[i].id = R[i].audio_url
                        /\ fg[i].enclosure = R[i].audio_url]_vars

\* C11: GET /latest answers 200 with the record appended last when the list
\* holds a record, and 404 (not 200, not 500) when the list is empty.
C11_LatestOrNotFound ==
    [][response' # response /\ response'.endpoint = "latest" =>
        IF podcast_episodes = <<>>
        THEN response'.status = 404
        ELSE /\ response'.status = 200
             /\ LET latest == podcast_episodes[Len(podcast_episodes)]
                IN  response'.body = <<Returned(latest.podcast_text,
                                                latest.audio_url,
                                                latest.created_at)>>]_vars

\* C12: right after an invocation made through POST /generate, no other
\* invocation running, the dictionary it returned (other than the handler's
\* error dictionary) is what GET /latest returns: podcast_text, audio_file
\* and created_at are those of the last record of the list.
C12_ReturnedIsLatest ==
    /\ pc["api"] = "idle" /\ pc["sched"] = "idle"
    /\ result["api"].outcome = "returned"
    /\ result["api"].audio_file # ERROR_MP3
    => get_latest_episode(podcast_episodes).body = <<result["api"]>>

\* C13: composing the script never ends the invocation, whatever rendering
\* does for a topic: the invocation goes on to synthesis with a script that
\* has, for every topic, its exchange or its fallback sentence, and the
\* handler's error dictionary is not returned.
C13_RenderFailureKeepsTopic ==
    [][\A p \in Threads :
        pc[p] = "compose" /\ pc'[p] # "compose" =>
            /\ pc'[p] = "tts"
            /\ result'[p] = NoResult
            /\ \A i \in 1..Len(loc[p].topics) :
                    \E k \in 1..Len(loc'[p].episode_content) :
                        /\ loc'[p].episode_content[k].topic = loc[p].topics[i]
                        /\ loc'[p].episode_content[k].kind \in {"exchange", "fallback"}]_vars

\* C14: the script handed to synthesis is: the opening (with the timestamp
\* of the episode), then for topic 1, 2, ... of the list fetch_tech_news
\* returned, in that order, one block about that topic (its exchange or its
\* fallback sentence), then the closing; nothing else.
C14_ScriptStructure ==
    [][\A p \in Threads :
        pc[p] = "compose" /\ pc'[p] = "tts" =>
            LET topics == loc[p].topics
                script == loc'[p].episode_content
            IN  /\ Len(script) = Len(topics) + 2
                /\ script[1] = Block("welcome", NoItem, 0, loc'[p].timestamp)
                /\ script[Len(script)] = Block("thanks", NoItem, 0, 0)
                /\ \A i \in 1..Len(topics) :
                        /\ script[i + 1].topic = topics[i]
                        /\ script[i + 1].kind \in {"exchange", "fallback"}]_vars

\* A script for five sampled topics, the first from the last source and the
\* last from the first source, has been composed; the block of the first
\* topic is its fallback sentence.
C14_Witness ==
    /\ pc["api"] = "tts"
    /\ Len(loc["api"].topics) = SampleSize
    /\ loc["api"].topics[1].source = NumSources
    /\ loc["api"].topics[SampleSize].source = 1
    /\ Len(loc["api"].episode_content) = SampleSize + 2
    /\ loc["api"].episode_content[2] = Block("fallback", loc["api"].topics[1], 0, 0)

\* C15: every invocation that has started ends, returning a dictionary,
\* whatever the providers do, also when one of them never answers.
C15_RunCompletes ==
    \A p \in Threads :
        (pc[p] # "idle") ~> (pc[p] = "idle" /\ result[p].outcome = "returned")

\* The positions an invocation can be at right after position at.
StepsAfter(at) ==
    CASE at = "idle"        -> {"fetch"}
      [] at = "fetch"       -> {"fetch", "sample"}
      [] at = "sample"      -> {"compose"}
      [] at = "compose"     -> {"tts", "idle"}
      [] at = "tts"         -> {"upload"}
      [] at = "upload"      -> {"append_load"}
      [] at = "append_load" -> {"append"}
      [] at = "append"      -> {"len"}
      [] at = "len"         -> {"slice", "feed_load"}
      [] at = "slice"       -> {"store"}
      [] at = "store"       -> {"feed_load"}
      [] at = "feed_load"   -> {"feed_build"}
      [] at = "feed_build"  -> {"feed_write", "return"}
      [] at = "feed_write"  -> {"feed_upload", "return"}
      [] at = "feed_upload" -> {"return"}
      [] OTHER              -> {"idle"}

\* C16: an invocation goes through fetch, compose, synthesize, publish the
\* audio, append, evict, regenerate the feed, in this order.  Synthesis and
\* the audio upload act only before the append; the list grows only by the
\* one append of the invocation, made when synthesis and publication have
\* returned their results; the list shrinks only at the eviction after the
\* append; the document is written only after append and eviction, and lists
\* the new record; the feed upload comes after the write, publishes the
\* document just written, and is attempted only if a bucket is configured.
C16_StepOrder ==
    [][\A p \in Threads :
        pc'[p] # pc[p] \/ loc'[p] # loc[p] =>
            /\ pc'[p] \in StepsAfter(pc[p])
            /\ synth_calls' # synth_calls \/ files' # files => pc[p] = "tts"
            /\ gcs_audio' # gcs_audio => pc[p] = "upload"
            /\ upload_calls' # upload_calls =>
                    pc[p] \in {"upload", "feed_upload"} /\ GCS_BUCKET_NAME
            /\ Len(podcast_episodes') > Len(podcast_episodes) =>
                    /\ pc[p] = "append"
                    /\ loc[p].audio_filename # NoRef
                    /\ loc[p].final_url # NoRef
                    /\ podcast_episodes' =
                            Append(podcast_episodes, loc[p].episode_data)
            /\ Len(podcast_episodes') < Len(podcast_episodes) =>
                    /\ pc[p] = "store"
                    /\ podcast_episodes' = LastEpisodes(podcast_episodes)
            /\ feed_file' # feed_file =>
                    /\ pc[p] = "feed_write"
                    /\ \E i \in 1..Len(feed_file'.entries) :
                            feed_file'.entries[i] = FeedEntry(loc[p].episode_data)
                    /\ Len(feed_file'.entries) = Len(podcast_episodes)
            /\ gcs_feed' # gcs_feed =>
                    /\ pc[p] = "feed_upload"
                    /\ gcs_feed' = feed_file
                    /\ feed_file.exists]_vars

\* With a bucket configured, the eleventh invocation has appended, evicted,
\* written the document of ten entries and uploaded it.
C16_Witness ==
    /\ GCS_BUCKET_NAME
    /\ runs = MaxEpisodes + 1
    /\ pc["sched"] = "return"
    /\ Len(podcast_episodes) = MaxEpisodes
    /\ podcast_episodes[MaxEpisodes] = loc["sched"].episode_data
    /\ Len(feed_file.entries) = MaxEpisodes
    /\ gcs_feed = feed_file

\* C17: when all of N invocations, some of them concurrent, have ended
\* successfully, the list holds exactly the records of the last min(N, 10)
\* appends (under SpecLedger the k-th composed script carries timestamp k, and
\* the records of the last min(N, 10) appends are those with the min(N, 10)
\* highest timestamps).
C17_NoLostAppend ==
    (\A p \in Threads : pc[p] = "idle") =>
        LET k == Min(runs, MaxEpisodes)
        IN  /\ Len(podcast_episodes) = k
            /\ {podcast_episodes[i].timestamp : i \in 1..Len(podcast_episodes)}
                    = (runs - k + 1)..runs

\* C18: an invocation returns the error dictionary ("Error generating
\* podcast.", "error.mp3") only from a step before the append, and no step
\* of an invocation up to and including that one changes the list, the feed
\* document or the published feed: the run that fails leaves all three as
\* they were when it started.
C18_ErrorRunChangesNothing ==
    [][\A p \in Threads :
        /\ result'[p] # result[p] /\ result'[p].audio_file = ERROR_MP3 =>
                /\ result'[p].podcast_text = ERROR_TEXT
                /\ pc[p] = "compose"
        /\ pc[p] \in {"idle", "fetch", "sample", "compose"}
             /\ (pc'[p] # pc[p] \/ loc'[p] # loc[p]) =>
                /\ podcast_episodes' = podcast_episodes
                /\ feed_file' = feed_file
                /\ gcs_feed' = gcs_feed]_vars

\* The second invocation has returned the error dictionary; the record and
\* the document of the first are still there, and nothing else.
C18_Witness ==
    /\ runs = 2
    /\ pc["api"] = "idle"
    /\ result["api"].audio_file = ERROR_MP3
    /\ Len(podcast_episodes) = 1
    /\ feed_file = Document(FeedEntries(<<>>, podcast_episodes))

\* C19: whatever fails while the feed is regenerated (building the feed,
\* writing the document, uploading it), generate_rss_feed returns normally:
\* the invocation goes on to its return statement, the list is left as it is,
\* and the invocation returns its own script and audio reference, not the
\* error dictionary, its record being the last of the list.
C19_FeedFailureAbsorbed ==
    [][\A p \in Threads :
        /\ pc[p] \in {"feed_build", "feed_write", "feed_upload"}
             /\ pc'[p] # pc[p] =>
                /\ pc'[p] \in {"feed_write", "feed_upload", "return"}
                /\ result'[p] = NoResult
                /\ podcast_episodes' = podcast_episodes
                /\ loc'[p].episode_data = loc[p].episode_data
        /\ pc[p] = "return" /\ pc'[p] # pc[p] =>
                /\ result'[p] = Returned(loc[p].episode_content,
                                         loc[p].final_url, now')
                /\ result'[p].audio_file # ERROR_MP3
                /\ podcast_episodes' # <<>>
                /\ podcast_episodes'[Len(podcast_episodes')] = loc[p].episode_data]_vars

\* Building the feed failed in the first invocation: it has returned its
\* record, which is in the list, and there is no document listing it.
C19_Witness ==
    /\ runs = 1
    /\ pc["api"] = "idle"
    /\ result["api"].outcome = "returned"
    /\ result["api"].audio_file # ERROR_MP3
    /\ Len(podcast_episodes) = 1
    /\ podcast_episodes[1].audio_url = result["api"].audio_file
    /\ feed_file = NoFile

\* C20: whatever the providers answer, fetch_tech_news returns a list of 1
\* to 5 items; so generate_podcast never takes the branch of line 225 and no
\* invocation returns "no_episode.mp3".
C20_FetchNeverEmpty ==
    [][\A p \in Threads :
        pc[p] = "sample" /\ pc'[p] # "sample" =>
            /\ Len(loc'[p].topics) \in 1..SampleSize
            /\ pc'[p] # "idle"
            /\ result'[p].audio_file # NO_EPISODE
            /\ result'[p].podcast_text # NO_TOPICS_TEXT]_vars

\* All three providers were down or served nothing, and the list returned
\* is the single fallback item.
C20_Witness ==
    /\ pc["api"] = "compose"
    /\ loc["api"].topics = <<FallbackItem>>
    /\ result["api"] = NoResult

====
